---- MODULE Spec2Model ----
(***************************************************************************)
(* Model of the anymatix portable ComfyUI packaging scripts.               *)
(*                                                                         *)
(*   Spec      : create_portable_comfyui.main, the packaging pipeline      *)
(*   SpecZip   : the same pipeline on one host, with files disappearing    *)
(*               and failing under the archive walk                        *)
(*   SpecWatch : github_automation.main, the remote workflow watcher       *)
(*                                                                         *)
(* Text is modelled as sequences of one-character strings where the code   *)
(* takes it apart (repository URLs); paths are sequences of components.    *)
(* The manifest files VERSION.txt, repos.json and requirements.txt are     *)
(* taken to be present and readable.                                       *)
(***************************************************************************)
EXTENDS Integers, Sequences, FiniteSets, TLC

(* ------------------------------ bounds --------------------------------- *)
MaxRepos == 3
MaxFaults == 2
MaxPolls == 3
MaxOtherRuns == 2

(* --------------------------- host platform ----------------------------- *)
\* values platform.system() reports
Systems == {"Darwin", "Linux", "Windows", "FreeBSD"}
\* values platform.machine() reports
Machines == {"x86_64", "AMD64", "arm64", "ARM64", "aarch64", "i386", "i686", "riscv64"}

\* str.lower() on the identifiers above
Lower(s) ==
    CASE s = "Darwin"  -> "darwin"
      [] s = "Linux"   -> "linux"
      [] s = "Windows" -> "windows"
      [] s = "FreeBSD" -> "freebsd"
      [] s = "AMD64"   -> "amd64"
      [] s = "ARM64"   -> "arm64"
      [] OTHER         -> s

\* arch_map with the "amd64" entry left out
arch_map_NoAmd64(machine) ==
    CASE machine = "x86_64"  -> "x64"
      [] machine = "i386"    -> "x86"
      [] machine = "i686"    -> "x86"
      [] machine = "arm64"   -> "arm64"
      [] machine = "aarch64" -> "arm64"
      [] OTHER               -> machine

\* arch_map.get(machine, machine)
arch_map(machine) ==
    CASE machine = "x86_64"  -> "x64"
      [] machine = "amd64"   -> "x64"
      [] machine = "i386"    -> "x86"
      [] machine = "i686"    -> "x86"
      [] machine = "arm64"   -> "arm64"
      [] machine = "aarch64" -> "arm64"
      [] OTHER               -> machine

\* get_platform_info(): <<system, arch>>
get_platform_info(sys, mach) == <<Lower(sys), arch_map(Lower(mach))>>

\* get_miniforge_url(): the installer file name, or "ValueError" when the
\* function falls through to the raise
get_miniforge_url(sys, mach) ==
    LET system  == get_platform_info(sys, mach)[1]
        machine == get_platform_info(sys, mach)[2]
    IN  IF system = "darwin" /\ machine = "x64" THEN "Miniforge3-MacOSX-x86_64.sh"
        ELSE IF system = "darwin" /\ machine = "arm64" THEN "Miniforge3-MacOSX-arm64.sh"
        ELSE IF system = "linux" /\ machine = "x64" THEN "Miniforge3-Linux-x86_64.sh"
        ELSE IF system = "linux" /\ machine = "arm64" THEN "Miniforge3-Linux-aarch64.sh"
        ELSE IF system = "windows" /\ machine = "x64" THEN "Miniforge3-Windows-x86_64.exe"
        ELSE "ValueError"

(* ------------------------------ paths ---------------------------------- *)
ANYMATIX_DIR == <<"anymatix">>
PYTHON_DIR == ANYMATIX_DIR \o <<"python">>
COMFYUI_DIR == ANYMATIX_DIR \o <<"ComfyUI">>
CUSTOM_NODES_DIR == COMFYUI_DIR \o <<"custom_nodes">>

(* --------------------------- repository URLs --------------------------- *)
URL_A == <<"h", "/", "r", ".", "g", "i", "t">>
URL_B == <<"h", "/", "o", "/", "n">>
URL_C == <<"h", "/", "a", ".", "g", "i", "t", "x", ".", "g", "i", "t">>
Urls == {URL_A, URL_B, URL_C}

DotGit == <<".", "g", "i", "t">>

\* os.path.basename(p): everything after the last "/"
RECURSIVE basename(_)
basename(p) ==
    IF \A i \in 1..Len(p) : p[i] # "/" THEN p
    ELSE basename(Tail(p))

\* str.replace(".git", ""): every non-overlapping occurrence, left to right
RECURSIVE replace_dot_git(_)
replace_dot_git(s) ==
    IF Len(s) < Len(DotGit) THEN s
    ELSE IF SubSeq(s, 1, Len(DotGit)) = DotGit
         THEN replace_dot_git(SubSeq(s, Len(DotGit) + 1, Len(s)))
         ELSE <<Head(s)>> \o replace_dot_git(Tail(s))

\* repo_name and repo_dir of clone_custom_nodes
repo_name(url) == replace_dot_git(basename(url))
repo_dir(url) == Append(CUSTOM_NODES_DIR, repo_name(url))

(* ------------------------- requirements.txt ---------------------------- *)
Requirements == <<"torch", "torchvision", "numpy", "#comment">>
StartsWithFiltered(req) == req \in {"torch", "torchvision", "torchaudio", "#comment"}
filtered_requirements == SelectSeq(Requirements, LAMBDA r : ~StartsWithFiltered(r))

VARIABLES
    \* ---- create_portable_comfyui.py ----
    platform_system,   \* platform.system()
    platform_machine,  \* platform.machine()
    args,              \* parsed flags: push, trigger_workflow
    repos,             \* repos.json: sequence of URLs
    pc,                \* position of main
    miniforge_url,     \* value returned by get_miniforge_url, or "none"
    idx,               \* position of the loop over repos (1-based)
    dirs,              \* directories created, in creation order
    files,             \* files present below ANYMATIX_DIR
    installer,         \* "none", "present" or "removed": the downloaded installer
    cmdLog,            \* external commands invoked: [cmd, url, dir, rc]
    warnings,          \* substeps for which "Warning: ..." was printed
    error,             \* exception that ended main, or "none"
    status,            \* "running", "ok" (exit 0) or "failed" (exit 1)
    walk_todo,         \* os.walk: directories still to visit
    cur_files,         \* os.walk: files listed for the current directory
    discovered,        \* files listed by the walk so far
    archive,           \* entries written to the zip file
    skipped,           \* files logged and skipped by the walk
    volatile,          \* TRUE when the tree can change or fail under the walk
    faults,            \* files that disappeared or failed to be read so far
    zip_filename,      \* value returned by create_zip_package, or <<>>
    \* ---- github_automation.py ----
    wpc,               \* position of github_automation.main
    runs,              \* remote: ids of the runs the run list shows
    run_state,         \* remote: run id -> [status, conclusion]
    own_run,           \* remote: id of the run created by our trigger (0: none)
    listed,            \* remote: TRUE once our run is listed
    run_id,            \* id captured by trigger_workflow (0: none)
    last_status,       \* status printed by the last poll
    conclusion,        \* conclusion printed by monitor_workflow
    success,           \* value returned by monitor_workflow: "none", "true", "false"
    polls,             \* number of status polls
    download_log,      \* artifact-download invocations: [run, rc]
    exit_code          \* -1 running, 0 success, 1 failure

pvars == <<platform_system, platform_machine, args, repos, pc, miniforge_url, idx, dirs, files,
           installer, cmdLog, warnings, error, status, walk_todo, cur_files,
           discovered, archive, skipped, volatile, faults, zip_filename>>
wvars == <<wpc, runs, run_state, own_run, listed, run_id, last_status,
           conclusion, success, polls, download_log, exit_code>>
vars == <<pvars, wvars>>

(* ------------------------------ helpers -------------------------------- *)
\* os.makedirs(d, exist_ok=True) and directories created by external tools
AddDir(ds, d) == IF \E i \in 1..Len(ds) : ds[i] = d THEN ds ELSE Append(ds, d)

\* os.path.dirname
dirname(p) == SubSeq(p, 1, Len(p) - 1)

\* os.path.relpath(p, start) for a start that is a prefix of p
relpath(p, start) == SubSeq(p, Len(start) + 1, Len(p))

\* arcname of create_zip_package
arcname(file_path) == relpath(file_path, dirname(ANYMATIX_DIR))

\* the files of a directory in listing order
RECURSIVE SeqOf(_)
SeqOf(S) ==
    IF S = {} THEN <<>>
    ELSE LET x == CHOOSE y \in S : TRUE IN <<x>> \o SeqOf(S \ {x})

\* manifests: sequences of at most MaxRepos URLs
Manifests == UNION {[1..n -> Urls] : n \in 0..MaxRepos}

(* ----------------------------- run_command ----------------------------- *)
\* how a subprocess ends: exit status 0, non-zero exit status, or the
\* program could not be started at all (OSError from subprocess.run)
Rcs == {"ok", "nonzero", "oserror"}

\* the steps of main that are run_command calls
CommandSteps ==
    {"install_miniforge", "conda_init", "conda_install_win", "pip_install_win",
     "conda_install", "libblas", "pip_torch", "pip_filtered", "pip_requirements",
     "clone_comfyui", "clone_node", "git_add", "git_commit", "git_push",
     "gh_workflow_run"}

\* the three Windows substeps of create_portable_python
WindowsSubsteps == {"conda_init", "conda_install_win", "pip_install_win"}

\* the plugin clones run with check=False
Check_ClonesUnchecked(step) == step \notin WindowsSubsteps \cup {"clone_node"}

\* the check= argument of the run_command call at a step
Check(step) == step \notin WindowsSubsteps

\* run_command returning the failed process whatever check says
Raises_Never(check, rc) == rc = "oserror"

\* run_command: does an exception leave the call?
Raises(check, rc) == rc = "oserror" \/ (rc = "nonzero" /\ check)

\* is the call at this step wrapped in try/except Exception?
Caught(step) == step \in WindowsSubsteps

(* ----------------------------- control flow ---------------------------- *)
AfterZip == IF args.push THEN "git_add"
            ELSE IF args.trigger_workflow THEN "gh_workflow_run"
            ELSE "finish"

\* the step main reaches after the run_command call at step has returned
NextPc(step) ==
    CASE step = "install_miniforge" ->
             IF platform_system = "Windows" THEN "conda_init" ELSE "conda_install"
      [] step = "conda_init"        -> "conda_install_win"
      [] step = "conda_install_win" -> "pip_install_win"
      [] step = "pip_install_win"   -> "clone_comfyui"
      [] step = "conda_install" ->
             IF platform_system = "darwin" /\ platform_machine = "arm64"
             THEN "libblas" ELSE "pip_requirements"
      [] step = "libblas"           -> "pip_torch"
      [] step = "pip_torch" ->
             IF filtered_requirements # <<>> THEN "pip_filtered" ELSE "clone_comfyui"
      [] step = "pip_filtered"      -> "clone_comfyui"
      [] step = "pip_requirements"  -> "clone_comfyui"
      [] step = "clone_comfyui"     -> "clone_custom_nodes"
      [] step = "clone_node" ->
             IF idx + 1 > Len(repos) THEN "create_launch_script" ELSE "clone_node"
      [] step = "git_add"           -> "git_commit"
      [] step = "git_commit"        -> "git_push"
      [] step = "git_push" ->
             IF args.trigger_workflow THEN "gh_workflow_run" ELSE "finish"
      [] step = "gh_workflow_run"   -> "finish"

\* directories present after the command at step has succeeded
DirsAfter(step) ==
    CASE step = "install_miniforge" -> AddDir(dirs, PYTHON_DIR)
      [] step = "libblas"           -> AddDir(dirs, PYTHON_DIR \o <<"conda-meta">>)
      [] step = "clone_comfyui"     -> AddDir(dirs, COMFYUI_DIR)
      [] step = "clone_node"        -> AddDir(dirs, repo_dir(repos[idx]))
      [] OTHER                      -> dirs

\* files present after the command at step has succeeded, and after the
\* straight-line code that follows it
FilesAfter(step) ==
    CASE step = "install_miniforge" -> files \cup {PYTHON_DIR \o <<"python">>}
      [] step = "libblas"           -> files \cup {PYTHON_DIR \o <<"conda-meta", "pinned">>}
      [] step = "clone_comfyui"     ->
             files \cup {COMFYUI_DIR \o <<"main.py">>, COMFYUI_DIR \o <<"server.py">>}
      [] step = "clone_node"        -> files \cup {repo_dir(repos[idx]) \o <<"nodes.py">>}
      [] OTHER                      -> files

(* ------------------- create_portable_comfyui: actions ------------------ *)
\* the state of main before its first statement
PFresh ==
    /\ pc = "start"
    /\ miniforge_url = "none"
    /\ idx = 1
    /\ dirs = <<>>
    /\ files = {}
    /\ installer = "none"
    /\ cmdLog = <<>>
    /\ warnings = {}
    /\ error = "none"
    /\ status = "running"
    /\ walk_todo = <<>>
    /\ cur_files = <<>>
    /\ discovered = {}
    /\ archive = {}
    /\ skipped = {}
    /\ faults = 0
    /\ zip_filename = <<>>

\* main line 473: os.makedirs(ANYMATIX_DIR, exist_ok=True)
MainMakedirs ==
    /\ pc = "start"
    /\ dirs' = AddDir(dirs, ANYMATIX_DIR)
    /\ pc' = "get_miniforge_url"
    /\ UNCHANGED <<platform_system, platform_machine, args, repos, miniforge_url, idx,
                   files, installer, cmdLog, warnings, error, status, walk_todo,
                   cur_files, discovered, archive, skipped, volatile, faults, zip_filename>>
    /\ UNCHANGED wvars

\* create_portable_python line 125: the platform is resolved, or the run ends
GetMiniforgeUrl ==
    /\ pc = "get_miniforge_url"
    /\ LET url == get_miniforge_url(platform_system, platform_machine)
       IN  IF url = "ValueError"
           THEN /\ error' = "ValueError"
                /\ status' = "failed"
                /\ pc' = "done"
                /\ UNCHANGED miniforge_url
           ELSE /\ miniforge_url' = url
                /\ pc' = "urlretrieve"
                /\ UNCHANGED <<error, status>>
    /\ UNCHANGED <<platform_system, platform_machine, args, repos, idx, dirs,
                   files, installer, cmdLog, warnings, walk_todo,
                   cur_files, discovered, archive, skipped, volatile, faults, zip_filename>>
    /\ UNCHANGED wvars

\* create_portable_python line 129: the installer is downloaded
Urlretrieve ==
    /\ pc = "urlretrieve"
    /\ \E ok \in BOOLEAN :
         IF ok
         THEN /\ installer' = "present"
              /\ pc' = "install_miniforge"
              /\ UNCHANGED <<error, status>>
         ELSE /\ error' = "URLError"
              /\ status' = "failed"
              /\ pc' = "done"
              /\ UNCHANGED installer
    /\ UNCHANGED <<platform_system, platform_machine, args, repos, miniforge_url, idx,
                   dirs, files, cmdLog, warnings, walk_todo,
                   cur_files, discovered, archive, skipped, volatile, faults, zip_filename>>
    /\ UNCHANGED wvars

\* one run_command call of the pipeline, with the straight-line code that
\* follows it up to the next step
RunCommand ==
    /\ pc \in CommandSteps
    /\ \E rc \in Rcs :
         /\ cmdLog' = Append(cmdLog,
                [cmd |-> pc,
                 url |-> IF pc = "clone_node" THEN repos[idx] ELSE <<>>,
                 dir |-> IF pc = "clone_node" THEN repo_dir(repos[idx]) ELSE <<>>,
                 rc  |-> rc])
         /\ IF Raises(Check(pc), rc) /\ ~Caught(pc)
            THEN /\ error' = IF rc = "nonzero" THEN "CalledProcessError" ELSE "OSError"
                 /\ status' = "failed"
                 /\ pc' = "done"
                 /\ UNCHANGED <<idx, dirs, files, installer, warnings>>
            ELSE /\ warnings' = IF Raises(Check(pc), rc)
                                THEN warnings \cup {pc} ELSE warnings
                 /\ dirs' = IF rc = "ok" THEN DirsAfter(pc) ELSE dirs
                 /\ files' = IF rc = "ok" THEN FilesAfter(pc) ELSE files
                 /\ installer' = IF pc = "install_miniforge" THEN "removed" ELSE installer
                 /\ idx' = IF pc = "clone_node" THEN idx + 1 ELSE idx
                 /\ pc' = NextPc(pc)
                 /\ UNCHANGED <<error, status>>
    /\ UNCHANGED <<platform_system, platform_machine, args, repos, miniforge_url,
                   walk_todo, cur_files, discovered, archive, skipped, volatile, faults,
                   zip_filename>>
    /\ UNCHANGED wvars

\* clone_custom_nodes lines 279-283: the plugins directory and the manifest
CloneCustomNodesBegin ==
    /\ pc = "clone_custom_nodes"
    /\ dirs' = AddDir(dirs, CUSTOM_NODES_DIR)
    /\ idx' = 1
    /\ pc' = IF Len(repos) = 0 THEN "create_launch_script" ELSE "clone_node"
    /\ UNCHANGED <<platform_system, platform_machine, args, repos, miniforge_url,
                   files, installer, cmdLog, warnings, error, status, walk_todo,
                   cur_files, discovered, archive, skipped, volatile, faults, zip_filename>>
    /\ UNCHANGED wvars

\* create_launch_script
CreateLaunchScript ==
    /\ pc = "create_launch_script"
    /\ LET system == get_platform_info(platform_system, platform_machine)[1]
       IN  files' = IF system \in {"darwin", "linux"}
                    THEN files \cup {ANYMATIX_DIR \o <<"anymatix_comfyui">>}
                    ELSE IF system = "windows"
                    THEN files \cup {ANYMATIX_DIR \o <<"anymatix_comfyui.bat">>}
                    ELSE files
    /\ pc' = "create_zip_package"
    /\ UNCHANGED <<platform_system, platform_machine, args, repos, miniforge_url, idx,
                   dirs, installer, cmdLog, warnings, error, status, walk_todo,
                   cur_files, discovered, archive, skipped, volatile, faults, zip_filename>>
    /\ UNCHANGED wvars

(* ------------------------- create_zip_package -------------------------- *)
\* VERSION.txt, stripped
Version == "1.2.3"

\* zip_filename of create_zip_package: its variable parts
ZipName == <<get_platform_info(platform_system, platform_machine)[1],
             get_platform_info(platform_system, platform_machine)[2], Version>>

\* the inner loop left after one file
RestAfter_Break(listing) == <<>>

\* the inner loop moves on to the next listed file
RestAfter(listing) == Tail(listing)

\* lines 419-426: the archive is opened and the walk starts at ANYMATIX_DIR
ZipOpen ==
    /\ pc = "create_zip_package"
    /\ walk_todo' = dirs
    /\ cur_files' = <<>>
    /\ pc' = "zip_walk"
    /\ UNCHANGED <<platform_system, platform_machine, args, repos, miniforge_url, idx,
                   dirs, files, installer, cmdLog, warnings, error, status,
                   discovered, archive, skipped, volatile, faults, zip_filename>>
    /\ UNCHANGED wvars

\* line 426: os.walk yields the next directory with the files it holds now
ZipListDir ==
    /\ pc = "zip_walk"
    /\ cur_files = <<>>
    /\ walk_todo # <<>>
    /\ LET here == {f \in files : dirname(f) = Head(walk_todo)}
       IN  /\ cur_files' = SeqOf(here)
           /\ discovered' = discovered \cup here
    /\ walk_todo' = Tail(walk_todo)
    /\ UNCHANGED <<platform_system, platform_machine, args, repos, pc, miniforge_url,
                   idx, dirs, files, installer, cmdLog, warnings, error, status,
                   archive, skipped, volatile, faults, zip_filename>>
    /\ UNCHANGED wvars

\* lines 427-436: one listed file is written, or logged and skipped
ZipFile ==
    /\ pc = "zip_walk"
    /\ cur_files # <<>>
    /\ LET file_path == Head(cur_files)
       IN  \E write_ok \in (IF volatile /\ faults < MaxFaults THEN BOOLEAN ELSE {TRUE}) :
             IF file_path \in files
             THEN IF write_ok
                  THEN /\ archive' = archive \cup {arcname(file_path)}
                       /\ UNCHANGED <<skipped, faults>>
                  ELSE /\ skipped' = skipped \cup {[file |-> file_path, log |-> "error"]}
                       /\ faults' = faults + 1
                       /\ UNCHANGED archive
             ELSE /\ skipped' = skipped \cup {[file |-> file_path, log |-> "not_found"]}
                  /\ UNCHANGED <<archive, faults>>
    /\ cur_files' = RestAfter(cur_files)
    /\ UNCHANGED <<platform_system, platform_machine, args, repos, pc, miniforge_url,
                   idx, dirs, files, installer, cmdLog, warnings, error, status,
                   walk_todo, discovered, volatile, zip_filename>>
    /\ UNCHANGED wvars

\* lines 438-439: the walk is over, the archive is closed and its name returned
ZipClose ==
    /\ pc = "zip_walk"
    /\ cur_files = <<>>
    /\ walk_todo = <<>>
    /\ zip_filename' = ZipName
    /\ pc' = AfterZip
    /\ UNCHANGED <<platform_system, platform_machine, args, repos, miniforge_url, idx,
                   dirs, files, installer, cmdLog, warnings, error, status, walk_todo,
                   cur_files, discovered, archive, skipped, volatile, faults>>
    /\ UNCHANGED wvars

\* the environment: a file below ANYMATIX_DIR disappears during the walk
EnvDeleteFile ==
    /\ pc = "zip_walk"
    /\ volatile
    /\ faults < MaxFaults
    /\ \E f \in files : files' = files \ {f}
    /\ faults' = faults + 1
    /\ UNCHANGED <<platform_system, platform_machine, args, repos, pc, miniforge_url,
                   idx, dirs, installer, cmdLog, warnings, error, status, walk_todo,
                   cur_files, discovered, archive, skipped, volatile, zip_filename>>
    /\ UNCHANGED wvars

\* main line 504: main returns, the process exits with status 0
MainReturn ==
    /\ pc = "finish"
    /\ status' = "ok"
    /\ pc' = "done"
    /\ UNCHANGED <<platform_system, platform_machine, args, repos, miniforge_url, idx,
                   dirs, files, installer, cmdLog, warnings, error, walk_todo,
                   cur_files, discovered, archive, skipped, volatile, faults, zip_filename>>
    /\ UNCHANGED wvars

(* --------------------------- github_automation ------------------------- *)
WIdle ==
    /\ wpc = "idle"
    /\ runs = {}
    /\ run_state = <<>>
    /\ own_run = 0
    /\ listed = FALSE
    /\ run_id = 0
    /\ last_status = "none"
    /\ conclusion = "none"
    /\ success = "none"
    /\ polls = 0
    /\ download_log = <<>>
    /\ exit_code = -1

\* conclusions a completed run can carry
Conclusions == {"success", "failure", "cancelled"}

\* '.workflow_runs[0]': the run list is ordered newest first
Newest(S) == CHOOSE r \in S : \A q \in S : q <= r

\* the result taken as conclusion != "failure"
MonitorResult_NotFailure(concl) == IF concl # "failure" THEN "true" ELSE "false"

\* monitor_workflow line 70: conclusion == "success"
MonitorResult(concl) == IF concl = "success" THEN "true" ELSE "false"

\* the status list with "completed" left out
IsTerminal_NoCompleted(st) == st \in {"cancelled", "failure"}

\* monitor_workflow line 65
IsTerminal(st) == st \in {"completed", "cancelled", "failure"}

WInit ==
    /\ wpc = "trigger"
    /\ \E old \in {"none"} \cup Conclusions :
         IF old = "none"
         THEN runs = {} /\ run_state = <<>>
         ELSE runs = {1} /\ run_state = <<[status |-> "completed", conclusion |-> old]>>
    /\ own_run = 0
    /\ listed = FALSE
    /\ run_id = 0
    /\ last_status = "none"
    /\ conclusion = "none"
    /\ success = "none"
    /\ polls = 0
    /\ download_log = <<>>
    /\ exit_code = -1

\* run_command lines 34-37: a non-zero return code ends the process
ExitOnError ==
    /\ exit_code' = 1
    /\ wpc' = "done"

\* trigger_workflow line 44: 'gh workflow run'; the service creates our run
TriggerWorkflow ==
    /\ wpc = "trigger"
    /\ \E rc \in {"ok", "nonzero"} :
         IF rc = "nonzero"
         THEN /\ ExitOnError
              /\ UNCHANGED <<run_state, own_run>>
         ELSE /\ own_run' = Len(run_state) + 1
              /\ run_state' = Append(run_state, [status |-> "queued", conclusion |-> "none"])
              /\ wpc' = "list_runs"
              /\ UNCHANGED exit_code
    /\ UNCHANGED <<runs, listed, run_id, last_status, conclusion, success, polls,
                   download_log>>
    /\ UNCHANGED pvars

\* trigger_workflow lines 47-55: after the pause, the newest listed run is
\* taken; with no run listed the query yields null and runs["id"] raises
ListRuns ==
    /\ wpc = "list_runs"
    /\ \E rc \in {"ok", "nonzero"} :
         IF rc = "nonzero" \/ runs = {}
         THEN /\ ExitOnError
              /\ UNCHANGED run_id
         ELSE /\ run_id' = Newest(runs)
              /\ wpc' = "poll"
              /\ UNCHANGED exit_code
    /\ UNCHANGED <<runs, run_state, own_run, listed, last_status, conclusion, success,
                   polls, download_log>>
    /\ UNCHANGED pvars

\* monitor_workflow lines 62-65: one status poll
Poll ==
    /\ wpc = "poll"
    /\ polls < MaxPolls
    /\ \E rc \in {"ok", "nonzero"} :
         IF rc = "nonzero"
         THEN /\ ExitOnError
              /\ UNCHANGED last_status
         ELSE /\ last_status' = run_state[run_id].status
              /\ wpc' = IF IsTerminal(run_state[run_id].status) THEN "conclusion" ELSE "sleep"
              /\ UNCHANGED exit_code
    /\ polls' = polls + 1
    /\ UNCHANGED <<runs, run_state, own_run, listed, run_id, conclusion, success,
                   download_log>>
    /\ UNCHANGED pvars

\* monitor_workflow line 72: time.sleep(30), then the loop polls again
Sleep ==
    /\ wpc = "sleep"
    /\ wpc' = "poll"
    /\ UNCHANGED <<runs, run_state, own_run, listed, run_id, last_status, conclusion,
                   success, polls, download_log, exit_code>>
    /\ UNCHANGED pvars

\* monitor_workflow lines 66-70: the conclusion is read and the result returned
Conclusion ==
    /\ wpc = "conclusion"
    /\ \E rc \in {"ok", "nonzero"} :
         IF rc = "nonzero"
         THEN /\ ExitOnError
              /\ UNCHANGED <<conclusion, success>>
         ELSE /\ conclusion' = run_state[run_id].conclusion
              /\ success' = MonitorResult(run_state[run_id].conclusion)
              /\ wpc' = "monitored"
              /\ UNCHANGED exit_code
    /\ UNCHANGED <<runs, run_state, own_run, listed, run_id, last_status, polls,
                   download_log>>
    /\ UNCHANGED pvars

\* main lines 93-99 and download_artifacts
Finish ==
    /\ wpc = "monitored"
    /\ IF success = "true"
       THEN \E rc \in {"ok", "nonzero"} :
              /\ download_log' = Append(download_log, [run |-> run_id, rc |-> rc])
              /\ exit_code' = IF rc = "ok" THEN 0 ELSE 1
       ELSE /\ exit_code' = 1
            /\ UNCHANGED download_log
    /\ wpc' = "done"
    /\ UNCHANGED <<runs, run_state, own_run, listed, run_id, last_status, conclusion,
                   success, polls>>
    /\ UNCHANGED pvars

\* the CI service: the run our request created shows up in the run list
RemoteList ==
    /\ wpc # "done"
    /\ own_run # 0
    /\ ~listed
    /\ runs' = runs \cup {own_run}
    /\ listed' = TRUE
    /\ UNCHANGED <<wpc, run_state, own_run, run_id, last_status, conclusion, success,
                   polls, download_log, exit_code>>
    /\ UNCHANGED pvars

\* the CI service: somebody else's run of the same workflow is created
RemoteOtherRun ==
    /\ wpc # "done"
    /\ Len(run_state) < MaxOtherRuns + 1
    /\ runs' = runs \cup {Len(run_state) + 1}
    /\ run_state' = Append(run_state, [status |-> "queued", conclusion |-> "none"])
    /\ UNCHANGED <<wpc, own_run, listed, run_id, last_status, conclusion, success,
                   polls, download_log, exit_code>>
    /\ UNCHANGED pvars

\* the CI service: a run advances towards completion
RemoteProgress ==
    /\ wpc # "done"
    /\ \E r \in 1..Len(run_state) :
         \/ /\ run_state[r].status = "queued"
            /\ run_state' = [run_state EXCEPT ![r].status = "in_progress"]
         \/ /\ run_state[r].status = "in_progress"
            /\ \E c \in Conclusions :
                 run_state' = [run_state EXCEPT ![r] = [status |-> "completed", conclusion |-> c]]
    /\ UNCHANGED <<wpc, runs, own_run, listed, run_id, last_status, conclusion, success,
                   polls, download_log, exit_code>>
    /\ UNCHANGED pvars

(* ---------------------------- specifications --------------------------- *)
\* the pipeline on every host, the tree left alone during the walk
Init ==
    /\ platform_system \in Systems
    /\ platform_machine \in Machines
    /\ args \in [push : BOOLEAN, trigger_workflow : BOOLEAN]
    /\ repos \in Manifests
    /\ volatile = FALSE
    /\ PFresh
    /\ WIdle

Next ==
    \/ MainMakedirs
    \/ GetMiniforgeUrl
    \/ Urlretrieve
    \/ RunCommand
    \/ CloneCustomNodesBegin
    \/ CreateLaunchScript
    \/ ZipOpen
    \/ ZipListDir
    \/ ZipFile
    \/ ZipClose
    \/ MainReturn

Spec == Init /\ [][Next]_vars

\* the pipeline on one host, the tree changing and failing under the walk
InitZip ==
    /\ platform_system = "Linux"
    /\ platform_machine = "x86_64"
    /\ args \in [push : BOOLEAN, trigger_workflow : BOOLEAN]
    /\ repos \in Manifests
    /\ volatile = TRUE
    /\ PFresh
    /\ WIdle

NextZip == Next \/ EnvDeleteFile

SpecZip == InitZip /\ [][NextZip]_vars

\* the watcher; the pipeline's state is that of a process not started
PIdle ==
    /\ platform_system = "Linux"
    /\ platform_machine = "x86_64"
    /\ args = [push |-> FALSE, trigger_workflow |-> FALSE]
    /\ repos = <<>>
    /\ volatile = FALSE
    /\ PFresh

InitWatch == PIdle /\ WInit

NextWatch ==
    \/ TriggerWorkflow
    \/ ListRuns
    \/ Poll
    \/ Sleep
    \/ Conclusion
    \/ Finish
    \/ RemoteList
    \/ RemoteOtherRun
    \/ RemoteProgress

SpecWatch == InitWatch /\ [][NextWatch]_vars

(* ================================ claims =============================== *)

\* a checked command of the pipeline has exited non-zero
Fatal(entry) == entry.rc = "nonzero" /\ entry.cmd \notin WindowsSubsteps
HasFatal == \E i \in DOMAIN cmdLog : Fatal(cmdLog[i])

\* C1: the step in which the first checked command exits non-zero records
\* that command as the last one invoked, creates nothing, and ends the
\* process unsuccessfully; from then on nothing changes any more: no
\* further command (the failed one included), clone, launch script,
\* archive, push or trigger.
C1_AbortOnFirstFailure ==
    [][ /\ (HasFatal => UNCHANGED vars)
        /\ (~HasFatal /\ HasFatal' =>
              /\ Len(cmdLog') = Len(cmdLog) + 1
              /\ Fatal(cmdLog'[Len(cmdLog')])
              /\ pc' = "done"
              /\ status' = "failed"
              /\ UNCHANGED <<dirs, files, archive, zip_filename>>) ]_vars

\* C1 witness: the process has ended on a failed checked command that was
\* not the first command of the run
C1_Witness ==
    /\ HasFatal
    /\ Len(cmdLog) >= 3
    /\ pc = "done"
    /\ status = "failed"

\* C2: when the run has ended with the unsupported-platform error, no
\* directory or file has been created, nothing has been downloaded and no
\* external command has been run.
C2_NoSideEffectBeforeError ==
    error = "ValueError" =>
        /\ dirs = <<>>
        /\ files = {}
        /\ installer = "none"
        /\ cmdLog = <<>>

\* the architecture synonyms of the reference table, after case folding
RefArch(machine) ==
    IF machine \in {"x86_64", "amd64"} THEN "x64"
    ELSE IF machine \in {"arm64", "aarch64"} THEN "arm64"
    ELSE machine

\* the reference table: installer per supported (OS, architecture)
RefInstaller(system, arch) ==
    CASE system = "darwin" /\ arch = "x64"    -> "Miniforge3-MacOSX-x86_64.sh"
      [] system = "darwin" /\ arch = "arm64"  -> "Miniforge3-MacOSX-arm64.sh"
      [] system = "linux" /\ arch = "x64"     -> "Miniforge3-Linux-x86_64.sh"
      [] system = "linux" /\ arch = "arm64"   -> "Miniforge3-Linux-aarch64.sh"
      [] system = "windows" /\ arch = "x64"   -> "Miniforge3-Windows-x86_64.exe"
      [] OTHER                                -> "unsupported"

\* C3: once get_miniforge_url has been applied to the host, its outcome
\* is the reference table's: the installer of the normalized (OS,
\* architecture) pair when the pair is one of the five supported ones
\* (so two spellings of one architecture give the same URL), and the
\* unsupported-platform error without a value for every other pair.
C3_MiniforgeTable ==
    pc \notin {"start", "get_miniforge_url"} =>
        LET expected == RefInstaller(Lower(platform_system),
                                     RefArch(Lower(platform_machine)))
        IN  IF expected = "unsupported"
            THEN miniforge_url = "none" /\ error = "ValueError"
            ELSE miniforge_url = expected /\ error # "ValueError"

\* C3 witness: a host reporting the second x86 spelling has been resolved
C3_Witness ==
    /\ platform_system = "Windows"
    /\ platform_machine = "AMD64"
    /\ miniforge_url = "Miniforge3-Windows-x86_64.exe"

\* C4: every Windows dependency-installation substep that exited non-zero
\* has been logged as a warning and has not ended the run.
C4_FailureDowngradedToWarning ==
    \A i \in DOMAIN cmdLog :
        (cmdLog[i].cmd \in WindowsSubsteps /\ cmdLog[i].rc = "nonzero") =>
            /\ cmdLog[i].cmd \in warnings
            /\ ~(i = Len(cmdLog) /\ status = "failed")

\* C5: the generic 'pip install -r requirements.txt' is never run on a
\* host resolved to (darwin, arm64), and the optimized commands (libblas,
\* torch through pip, the filtered requirements) are run on no other host.
C5_OptimizedBranch ==
    LET info == get_platform_info(platform_system, platform_machine)
        apple == info = <<"darwin", "arm64">>
    IN  \A i \in DOMAIN cmdLog :
            /\ (cmdLog[i].cmd = "pip_requirements" => ~apple)
            /\ (cmdLog[i].cmd \in {"libblas", "pip_torch", "pip_filtered"} => apple)

\* the watcher has observed the conclusion of the run it watches
Downloaded == Len(download_log) > 0

\* C6 as stated: the download is invoked iff the observed conclusion is
\* success, and then the process returns successfully; for every other
\* conclusion there is no download and the process exits with code 1.
C6_DownloadIffSuccessThenExit0 ==
    /\ (Downloaded => conclusion = "success")
    /\ (wpc = "done" /\ conclusion # "none" =>
          IF conclusion = "success"
          THEN Downloaded /\ exit_code = 0
          ELSE ~Downloaded /\ exit_code = 1)

\* C6 amended: the download is invoked (once, for the watched run) iff the
\* observed conclusion is success, and the process then returns
\* successfully iff the download command itself exits zero, with exit code
\* 1 otherwise; for every other conclusion there is no download and the
\* process exits with code 1.
C6_DownloadIffSuccess ==
    /\ Len(download_log) <= 1
    /\ (Downloaded => conclusion = "success" /\ download_log[1].run = run_id)
    /\ (exit_code = 0 => Downloaded /\ download_log[1].rc = "ok")
    /\ (wpc = "done" /\ conclusion # "none" =>
          IF conclusion = "success"
          THEN /\ Downloaded
               /\ exit_code = IF download_log[1].rc = "ok" THEN 0 ELSE 1
          ELSE ~Downloaded /\ exit_code = 1)

\* C6 witness: a watched run concluded with success, was downloaded from,
\* and the process returned successfully
C6_Witness ==
    /\ wpc = "done"
    /\ conclusion = "success"
    /\ Downloaded
    /\ exit_code = 0

\* the polling loop of monitor_workflow
InLoop(p) == p \in {"poll", "sleep"}

\* C7 as stated: polling is over only when the run was observed in a
\* terminal state, and monitor_workflow has then returned.
C7_StopsExactlyOnTerminal ==
    (polls > 0 /\ ~InLoop(wpc)) =>
        /\ last_status = "completed"
        /\ (wpc = "done" => success # "none")

\* C7 amended: a poll that reports a non-terminal status is followed by the
\* sleep and another poll, without return or exit, however many polls came
\* before; a poll that reports the run completed ends the polling, the
\* conclusion is read and monitor_workflow returns; the loop is left in no
\* other way than that or by a gh command that exits non-zero, which ends
\* the process with exit code 1; after the loop no status poll is made.
C7_PollsUntilTerminal ==
    [][ /\ (polls' = polls + 1 /\ exit_code' = -1 =>
              /\ last_status' = run_state[run_id].status
              /\ IF run_state[run_id].status = "completed"
                 THEN wpc' = "conclusion"
                 ELSE wpc' = "sleep" /\ success' = "none")
        /\ (wpc = "sleep" => wpc' \in {"sleep", "poll"} /\ exit_code' = -1)
        /\ (InLoop(wpc) /\ ~InLoop(wpc') =>
              \/ wpc' = "conclusion" /\ polls' = polls + 1
                    /\ run_state[run_id].status = "completed"
              \/ wpc' = "done" /\ polls' = polls + 1 /\ exit_code' = 1)
        /\ (wpc = "conclusion" =>
              \/ wpc' = "conclusion"
              \/ wpc' = "monitored" /\ success' # "none"
              \/ wpc' = "done" /\ exit_code' = 1)
        /\ (wpc \in {"conclusion", "monitored", "done"} => polls' = polls) ]_vars

\* C7 witness: monitor_workflow has returned after at least one poll that
\* reported a non-terminal status
C7_Witness ==
    /\ wpc = "monitored"
    /\ polls >= 2

\* C8: the run identifier captured by trigger_workflow is the identifier of
\* the run this invocation's trigger request created.
C8_CapturedRunIsOwn ==
    run_id # 0 => run_id = own_run

\* the URL's final path segment
LastSegment(url) ==
    LET slashes == {i \in DOMAIN url : url[i] = "/"}
    IN  IF slashes = {} THEN url
        ELSE SubSeq(url, (CHOOSE i \in slashes : \A j \in slashes : j <= i) + 1, Len(url))

\* a trailing ".git" removed when present, the segment otherwise unchanged
StripSuffix(seg) ==
    IF Len(seg) >= Len(DotGit) /\ SubSeq(seg, Len(seg) - Len(DotGit) + 1, Len(seg)) = DotGit
    THEN SubSeq(seg, 1, Len(seg) - Len(DotGit))
    ELSE seg

\* C9: every plugin clone goes to the plugins directory joined with the
\* URL's final path segment, a trailing ".git" removed and the segment
\* otherwise unchanged.
C9_CloneDirIsSegmentWithoutSuffix ==
    \A i \in DOMAIN cmdLog :
        cmdLog[i].cmd = "clone_node" =>
            cmdLog[i].dir = Append(CUSTOM_NODES_DIR, StripSuffix(LastSegment(cmdLog[i].url)))

\* the files the walk logged and skipped
SkippedFiles == {e.file : e \in skipped}

\* C10: a listed file that is missing or fails to be added never ends the
\* archive step: while the walk runs the process is running, every listed
\* file already handled is either in the archive or logged as skipped, and
\* once create_zip_package has returned its archive name the archive holds
\* an entry for every listed file that was not skipped, and main has moved
\* on to its next step.
C10_MissingFileSkipped ==
    /\ (pc = "zip_walk" => status = "running" /\ zip_filename = <<>>)
    /\ archive \cup SkippedFiles \subseteq discovered
    /\ (zip_filename # <<>> =>
          /\ pc \in {"git_add", "git_commit", "git_push", "gh_workflow_run",
                     "finish", "done"}
          /\ \A f \in discovered : f \notin SkippedFiles => f \in archive)
    /\ (pc \in {"finish"} => zip_filename # <<>> /\ status = "running")

\* C10 witness: the run ended successfully with an archive from a walk that
\* met a missing file and skipped it
C10_Witness ==
    /\ status = "ok"
    /\ zip_filename # <<>>
    /\ \E e \in skipped : e.log = "not_found"
    /\ archive # {}

\* the plugin clones attempted so far, in the order of their invocation
CloneAttempts == SelectSeq(cmdLog, LAMBDA e : e.cmd = "clone_node")

\* the primary application clone has succeeded before command number i
PrimaryClonedBefore(i) ==
    \E j \in 1..(i - 1) : cmdLog[j].cmd = "clone_comfyui" /\ cmdLog[j].rc = "ok"

\* C11: the plugin clones attempted so far are the manifest's entries 1..k
\* in manifest order, one attempt per entry; every attempt but the last
\* has succeeded, so an entry is attempted only after all earlier entries
\* were cloned; and every attempt comes after the successful clone of the
\* primary application.
C11_ClonesInManifestOrder ==
    /\ Len(CloneAttempts) <= Len(repos)
    /\ \A k \in 1..Len(CloneAttempts) :
          /\ CloneAttempts[k].url = repos[k]
          /\ (k < Len(CloneAttempts) => CloneAttempts[k].rc = "ok")
    /\ \A i \in DOMAIN cmdLog :
          cmdLog[i].cmd = "clone_node" => PrimaryClonedBefore(i)

\* C11 witness: with a manifest of three entries the first clone succeeded,
\* the second failed, and the run has ended without an attempt at the third
C11_Witness ==
    /\ Len(repos) = 3
    /\ Len(CloneAttempts) = 2
    /\ CloneAttempts[1].rc = "ok"
    /\ CloneAttempts[2].rc = "nonzero"
    /\ pc = "done"

====
